---- MODULE Spec2Model ----
(***************************************************************************)
(* Clinic content engine (cce): guardrail evaluation, deterministic local  *)
(* repair, draft generation and the review state machine.                  *)
(*                                                                         *)
(* Text is modelled as a sequence of one-character strings, so substring   *)
(* search, case folding, regular-expression search/substitution and        *)
(* whitespace collapse are computed character by character as Python does. *)
(***************************************************************************)
EXTENDS Integers, Sequences, FiniteSets, TLC

VARIABLES
    apiKey,     \* whether OPENAI_API_KEY is set in the environment
    cfg,        \* client.yaml and guardrails.yaml of the client directory, and the
                \* number of posts they give for the month
    sources,    \* the client's sources directory
    kb,         \* kb/kb_chunks.jsonl
    plan,       \* runs/<month>/plan.json
    drafts,     \* runs/<month>/drafts.jsonl
    reviewed,   \* runs/<month>/reviewed.jsonl
    reads,      \* what run_generate and run_review got from llm_enabled(), the last time
    gin,        \* guardrail functions: the inputs of the call under study
    gpc,        \* guardrail functions: which call has been made
    gEval,      \* result of evaluate_draft(gin)
    gFix,       \* result of apply_rewrite_fixes(gin)
    gFix2,      \* result of apply_rewrite_fixes applied to gFix
    rin,        \* retrieve_relevant_chunks: the inputs of the call under study
    rpc,        \* retrieve_relevant_chunks: which call has been made
    rout,       \* result of retrieve_relevant_chunks(rin)
    rout2,      \* result of a second call on the same inputs
    cin,        \* chunk_text: the inputs of the call under study
    cpc,        \* chunk_text: whether the call has been made
    cout        \* what chunk_text(cin) returned or raised

gvars == <<gin, gpc, gEval, gFix, gFix2>>
pvars == <<apiKey, cfg, sources, kb, plan, drafts, reviewed, reads>>
uvars == <<rin, rpc, rout, rout2, cin, cpc, cout>>
vars == <<apiKey, cfg, sources, kb, plan, drafts, reviewed, reads,
          gin, gpc, gEval, gFix, gFix2,
          rin, rpc, rout, rout2, cin, cpc, cout>>

----------------------------------------------------------------------------
(* Bounds of the model *)

MaxCaptionLen == 4
MaxItems == 3
MaxCorpus == 4
MaxTopK == 3
MaxTextLen == 5
MaxChunkSize == 3

----------------------------------------------------------------------------
(* Characters and Python string primitives *)

UpperCase == <<"A","B","C","D","E","F","G","H","I","J","K","L","M",
               "N","O","P","Q","R","S","T","U","V","W","X","Y","Z">>
LowerCase == <<"a","b","c","d","e","f","g","h","i","j","k","l","m",
               "n","o","p","q","r","s","t","u","v","w","x","y","z">>

UpperSet == {UpperCase[i] : i \in 1..26}
LowerSet == {LowerCase[i] : i \in 1..26}

\* str.lower() on one character
LowerChar(c) ==
    IF c \in UpperSet THEN LowerCase[CHOOSE i \in 1..26 : UpperCase[i] = c] ELSE c

\* str.lower()
Lower(s) == [i \in 1..Len(s) |-> LowerChar(s[i])]

\* the characters matched by \s and removed by str.strip()
IsSpace(c) == c \in {" ", "\n", "\t", "\r", "\f"}

\* the characters matched by \d
IsDigit(c) == c \in {"0","1","2","3","4","5","6","7","8","9"}

Range(s) == {s[i] : i \in 1..Len(s)}

\* Python's  a in b  on strings
IsSubstring(a, b) ==
    \E i \in 0..(Len(b) - Len(a)) : \A j \in 1..Len(a) : b[i + j] = a[j]

\* ' '.join(list of strings)
RECURSIVE JoinSpace(_)
JoinSpace(ss) ==
    IF Len(ss) = 0 THEN <<>>
    ELSE IF Len(ss) = 1 THEN ss[1]
    ELSE ss[1] \o <<" ">> \o JoinSpace(Tail(ss))

\* the positions from..Len(s) of s, in order
Positions(s, from) == [k \in 1..(Len(s) - from + 1) |-> from + k - 1]

\* str.strip()
Strip(s) ==
    LET kept == SelectSeq(Positions(s, 1), LAMBDA i : ~IsSpace(s[i]))
    IN IF Len(kept) = 0 THEN <<>> ELSE SubSeq(s, kept[1], kept[Len(kept)])

----------------------------------------------------------------------------
(* Regular expressions: a pattern is a sequence of atoms, each atom a       *)
(* character test with an optional greedy "+".                              *)
(*   t = "lit"   : the character c (ic: compared case-insensitively)        *)
(*   t = "digit" : \d          t = "space" : \s                             *)

Lit(c)      == [t |-> "lit",   c |-> c,   ic |-> FALSE, plus |-> FALSE]
LitI(c)     == [t |-> "lit",   c |-> c,   ic |-> TRUE,  plus |-> FALSE]
LitPlus(c)  == [t |-> "lit",   c |-> c,   ic |-> FALSE, plus |-> TRUE]
Digits      == [t |-> "digit", c |-> "",  ic |-> FALSE, plus |-> TRUE]
Spaces      == [t |-> "space", c |-> "",  ic |-> FALSE, plus |-> TRUE]

AtomMatches(a, ch) ==
    CASE a.t = "lit"   -> IF a.ic THEN LowerChar(ch) = LowerChar(a.c) ELSE ch = a.c
      [] a.t = "digit" -> IsDigit(ch)
      [] a.t = "space" -> IsSpace(ch)

\* length of the longest run of characters matching atom a from position i
RunLen(a, s, i) ==
    LET stops == SelectSeq(Positions(s, i), LAMBDA j : ~AtomMatches(a, s[j]))
    IN IF Len(stops) = 0 THEN Len(s) - i + 1 ELSE stops[1] - i

\* The match of atoms k.. of pat anchored at position i of s that the
\* backtracking matcher finds first (greedy): the position after the match,
\* or 0 when there is none.
RECURSIVE MatchEnd(_, _, _, _)
MatchEnd(pat, k, s, i) ==
    IF k > Len(pat) THEN i
    ELSE IF i > Len(s) THEN 0
    ELSE IF ~AtomMatches(pat[k], s[i]) THEN 0
    ELSE IF ~pat[k].plus THEN MatchEnd(pat, k + 1, s, i + 1)
    ELSE LET run  == RunLen(pat[k], s, i)
             good == {m \in 1..run : MatchEnd(pat, k + 1, s, i + m) # 0}
         IN IF good = {} THEN 0
            ELSE MatchEnd(pat, k + 1, s, i + (CHOOSE m \in good : \A n \in good : n <= m))

\* re.search(pat, s) is not None
ReSearch(pat, s) == \E i \in 1..(Len(s) + 1) : MatchEnd(pat, 1, s, i) # 0

\* re.sub(pat, "", s) from position i on: the text up to the leftmost match
\* is kept, the match is dropped, and the scan resumes after it
RECURSIVE ReSubFrom(_, _, _)
ReSubFrom(pat, s, i) ==
    LET starts == SelectSeq(Positions(s, i), LAMBDA j : MatchEnd(pat, 1, s, j) > j)
    IN IF Len(starts) = 0 THEN SubSeq(s, i, Len(s))
       ELSE SubSeq(s, i, starts[1] - 1) \o ReSubFrom(pat, s, MatchEnd(pat, 1, s, starts[1]))

ReSubEmpty(pat, s) == ReSubFrom(pat, s, 1)

\* re.escape(phrase) compiled with re.IGNORECASE
EscapeIgnoreCase(phrase) == [i \in 1..Len(phrase) |-> LitI(phrase[i])]

\* re.sub(r"\s+", " ", s): each run of whitespace becomes one space
CollapseSpaces(s) ==
    LET kept == SelectSeq(Positions(s, 1),
                          LAMBDA i : ~IsSpace(s[i]) \/ i = 1 \/ ~IsSpace(s[i - 1]))
    IN [n \in 1..Len(kept) |-> IF IsSpace(s[kept[n]]) THEN " " ELSE s[kept[n]]]

\* re.sub(r"\s+", " ", s).strip()
NormalizeSpaces(s) == Strip(CollapseSpaces(s))

----------------------------------------------------------------------------
(* guardrails.py *)

PhraseReason(phrase)   == [kind |-> "Banned phrase detected", text |-> phrase, pattern |-> <<>>]
PatternReason(pattern) == [kind |-> "Banned claim pattern matched", text |-> <<>>, pattern |-> pattern]
KeywordReason(keyword) == [kind |-> "Disclaimer required due to keyword", text |-> keyword, pattern |-> <<>>]
MissingReason          == [kind |-> "Default disclaimer missing", text |-> <<>>, pattern |-> <<>>]
SuggestedReason        == [kind |-> "Suggested fix provided", text |-> <<>>, pattern |-> <<>>]

\* text = f"{draft.caption}\n{draft.cta}\n{' '.join(draft.hashtags)}"
DraftText(draft) ==
    draft.caption \o <<"\n">> \o draft.cta \o <<"\n">> \o JoinSpace(draft.hashtags)

\* the phrase loop comparing without lower-casing
BannedPhraseReasons_CaseSensitive(draft, guardrails) ==
    LET text == DraftText(draft)
        PhraseHit(phrase) == IsSubstring(phrase, text)
        hits == SelectSeq(guardrails.banned_phrases, PhraseHit)
    IN [i \in 1..Len(hits) |-> PhraseReason(hits[i])]

\* for phrase in banned_phrases: if phrase.lower() in lower_text
BannedPhraseReasons(draft, guardrails) ==
    LET lower_text == Lower(DraftText(draft))
        PhraseHit(phrase) == IsSubstring(Lower(phrase), lower_text)
        hits == SelectSeq(guardrails.banned_phrases, PhraseHit)
    IN [i \in 1..Len(hits) |-> PhraseReason(hits[i])]

\* the pattern loop searching the lower-cased text
BannedPatternReasons_LowerText(draft, guardrails) ==
    LET lower_text == Lower(DraftText(draft))
        PatternHit(pattern) == ReSearch(pattern, lower_text)
        hits == SelectSeq(guardrails.banned_claim_patterns, PatternHit)
    IN [i \in 1..Len(hits) |-> PatternReason(hits[i])]

\* for pattern in banned_claim_patterns: if re.search(pattern, text)
BannedPatternReasons(draft, guardrails) ==
    LET text == DraftText(draft)
        PatternHit(pattern) == ReSearch(pattern, text)
        hits == SelectSeq(guardrails.banned_claim_patterns, PatternHit)
    IN [i \in 1..Len(hits) |-> PatternReason(hits[i])]

\* the keyword loop comparing without lower-casing
KeywordReasons_CaseSensitive(draft, guardrails) ==
    LET text == DraftText(draft)
        KeywordHit(keyword) == IsSubstring(keyword, text)
        hits == SelectSeq(guardrails.disclaimer_rules.must_include_disclaimer_if_keywords, KeywordHit)
    IN [i \in 1..Len(hits) |-> KeywordReason(hits[i])]

\* for keyword in must_include_disclaimer_if_keywords: if keyword.lower() in lower_text
KeywordReasons(draft, guardrails) ==
    LET lower_text == Lower(DraftText(draft))
        KeywordHit(keyword) == IsSubstring(Lower(keyword), lower_text)
        hits == SelectSeq(guardrails.disclaimer_rules.must_include_disclaimer_if_keywords, KeywordHit)
    IN [i \in 1..Len(hits) |-> KeywordReason(hits[i])]

\* the keyword loop not setting must_have_disclaimer
MustHaveDisclaimer_FlagOnly(draft, guardrails) ==
    guardrails.disclaimer_rules.always_include_default_disclaimer

\* must_have_disclaimer after the keyword loop
MustHaveDisclaimer(draft, guardrails) ==
    \/ guardrails.disclaimer_rules.always_include_default_disclaimer
    \/ Len(KeywordReasons(draft, guardrails)) > 0

\* if must_have_disclaimer and default_disclaimer.lower() not in draft.disclaimer.lower()
MissingDisclaimerReasons(draft, guardrails, default_disclaimer) ==
    IF /\ MustHaveDisclaimer(draft, guardrails)
       /\ ~IsSubstring(Lower(default_disclaimer), Lower(draft.disclaimer))
    THEN <<MissingReason>> ELSE <<>>

\* the keyword loop running before the pattern loop
evaluate_draft_KeywordsFirst(draft, guardrails, default_disclaimer) ==
    LET reasons == BannedPhraseReasons(draft, guardrails)
                   \o KeywordReasons(draft, guardrails)
                   \o BannedPatternReasons(draft, guardrails)
                   \o MissingDisclaimerReasons(draft, guardrails, default_disclaimer)
    IN [ok |-> Len(reasons) = 0, reasons |-> reasons]

evaluate_draft(draft, guardrails, default_disclaimer) ==
    LET reasons == BannedPhraseReasons(draft, guardrails)
                   \o BannedPatternReasons(draft, guardrails)
                   \o KeywordReasons(draft, guardrails)
                   \o MissingDisclaimerReasons(draft, guardrails, default_disclaimer)
    IN [ok |-> Len(reasons) = 0, reasons |-> reasons]

\* for phrase in banned_phrases: caption = re.sub(re.escape(phrase), "", caption, flags=re.IGNORECASE)
RECURSIVE StripPhrases(_, _)
StripPhrases(phrases, caption) ==
    IF Len(phrases) = 0 THEN caption
    ELSE StripPhrases(Tail(phrases), ReSubEmpty(EscapeIgnoreCase(Head(phrases)), caption))

\* for pattern in banned_claim_patterns: caption = re.sub(pattern, "", caption)
RECURSIVE StripPatterns(_, _)
StripPatterns(patterns, caption) ==
    IF Len(patterns) = 0 THEN caption
    ELSE StripPatterns(Tail(patterns), ReSubEmpty(Head(patterns), caption))

\* a repair that never replaces the disclaimer
apply_rewrite_fixes_KeepsDisclaimer(caption, disclaimer, guardrails, default_disclaimer) ==
    LET c1 == StripPhrases(guardrails.banned_phrases, caption)
        c2 == NormalizeSpaces(c1)
        c3 == StripPatterns(guardrails.banned_claim_patterns, c2)
        fixed_caption == NormalizeSpaces(c3)
    IN [caption |-> fixed_caption, disclaimer |-> disclaimer]

apply_rewrite_fixes(caption, disclaimer, guardrails, default_disclaimer) ==
    LET c1 == StripPhrases(guardrails.banned_phrases, caption)
        c2 == NormalizeSpaces(c1)
        c3 == StripPatterns(guardrails.banned_claim_patterns, c2)
        fixed_caption == NormalizeSpaces(c3)
        fixed_disclaimer ==
            IF ~IsSubstring(Lower(default_disclaimer), Lower(disclaimer))
            THEN default_disclaimer ELSE disclaimer
    IN [caption |-> fixed_caption, disclaimer |-> fixed_disclaimer]

----------------------------------------------------------------------------
(* More Python string primitives (generate.py, review.py, utils.py) *)

IsLower(c) == c \in LowerSet
IsUpper(c) == c \in UpperSet

\* str.upper() on one character
UpperChar(c) ==
    IF IsLower(c) THEN UpperCase[CHOOSE i \in 1..26 : LowerCase[i] = c] ELSE c

\* str.title(): a letter that follows a non-letter is upper-cased, any other lower-cased
Title(s) ==
    [i \in 1..Len(s) |->
        IF i = 1 \/ ~(IsLower(s[i - 1]) \/ IsUpper(s[i - 1]))
        THEN UpperChar(s[i]) ELSE LowerChar(s[i])]

\* s[:n]
Take(s, n) == SubSeq(s, 1, IF n < Len(s) THEN n ELSE Len(s))

IsLineBreak(c) == c \in {"\n", "\r", "\f"}
IsWordChar(c) == IsLower(c) \/ IsDigit(c) \/ c = "_"

\* the character classes whose maximal runs the code extracts
InClass(class, c) ==
    CASE class = "non-space" -> ~IsSpace(c)
      [] class = "line"      -> ~IsLineBreak(c)
      [] class = "word"      -> IsWordChar(c)

\* the maximal runs of characters of a class, left to right, from position i on
RECURSIVE RunsFrom(_, _, _)
RunsFrom(class, s, i) ==
    LET starts == SelectSeq(Positions(s, i), LAMBDA j : InClass(class, s[j]))
    IN IF Len(starts) = 0 THEN <<>>
       ELSE LET stops == SelectSeq(Positions(s, starts[1]), LAMBDA j : ~InClass(class, s[j]))
                stop  == IF Len(stops) = 0 THEN Len(s) + 1 ELSE stops[1]
            IN <<SubSeq(s, starts[1], stop - 1)>> \o RunsFrom(class, s, stop)

\* str.split(): the whitespace-separated words
Split(s) == RunsFrom("non-space", s, 1)

\* the non-empty lines of str.splitlines() (line breaks: \n, \r, \f)
NonEmptyLines(s) == RunsFrom("line", s, 1)

StartsWithHash(x) == Len(x) > 0 /\ x[1] = "#"

\* "%04d" % n and "%03d" % n
DigitChar(d) == <<"0","1","2","3","4","5","6","7","8","9">>[d + 1]
RECURSIVE Decimal(_)
Decimal(n) == IF n < 10 THEN <<DigitChar(n)>> ELSE Decimal(n \div 10) \o <<DigitChar(n % 10)>>
RECURSIVE ZeroPad(_, _)
ZeroPad(s, width) == IF Len(s) >= width THEN s ELSE ZeroPad(<<"0">> \o s, width)

----------------------------------------------------------------------------
(* utils.py: retrieval *)

\* set(re.findall(r"[a-z0-9_]+", text.lower()))
Terms(text) == Range(RunsFrom("word", Lower(text), 1))

score_chunk(query_terms, chunk_text_value) ==
    Cardinality(query_terms \cap Terms(chunk_text_value))

\* descending, chunks of equal score in reverse corpus order
SortByScoreDesc_TiesReversed(scored) ==
    LET n == Len(scored)
        pos(i) == Cardinality({j \in 1..n : scored[j].score > scored[i].score})
                  + Cardinality({j \in i..n : scored[j].score = scored[i].score})
    IN [p \in 1..n |-> scored[CHOOSE i \in 1..n : pos(i) = p]]

\* list.sort(key=score, reverse=True): stable, descending
SortByScoreDesc(scored) ==
    LET n == Len(scored)
        pos(i) == Cardinality({j \in 1..n : scored[j].score > scored[i].score})
                  + Cardinality({j \in 1..i : scored[j].score = scored[i].score})
    IN [p \in 1..n |-> scored[CHOOSE i \in 1..n : pos(i) = p]]

\* no fallback to the head of the corpus
retrieve_relevant_chunks_NoFallback(query, chunks, top_k) ==
    LET terms == Terms(query)
        withScore == [i \in 1..Len(chunks) |->
                         [score |-> score_chunk(terms, chunks[i].text), chunk |-> chunks[i]]]
        scored == SortByScoreDesc(SelectSeq(withScore, LAMBDA x : x.score > 0))
    IN [i \in 1..Len(Take(scored, top_k)) |-> scored[i].chunk]

retrieve_relevant_chunks(query, chunks, top_k) ==
    LET terms == Terms(query)
        withScore == [i \in 1..Len(chunks) |->
                         [score |-> score_chunk(terms, chunks[i].text), chunk |-> chunks[i]]]
        scored == SortByScoreDesc(SelectSeq(withScore, LAMBDA x : x.score > 0))
    IN IF Len(scored) > 0
       THEN [i \in 1..Len(Take(scored, top_k)) |-> scored[i].chunk]
       ELSE Take(chunks, top_k)

----------------------------------------------------------------------------
(* utils.py: chunking (ingest.py calls chunk_text(normalized, 1000, 100)) *)

ChunkSize == 1000
ChunkOverlap == 100

\* text[a:b] with 0-based, end-exclusive offsets
Slice(text, a, b) == SubSeq(text, a + 1, IF b < Len(text) THEN b ELSE Len(text))

\* while start < len(text): chunk = text[start : start + chunk_size];
\*     if chunk: chunks.append(chunk); start += step
RECURSIVE ChunkLoop(_, _, _, _, _)
ChunkLoop(text, start, chunk_size, step, chunks) ==
    IF start < Len(text)
    THEN LET chunk == Slice(text, start, start + chunk_size)
         IN ChunkLoop(text, start + step, chunk_size, step,
                      IF Len(chunk) > 0 THEN Append(chunks, chunk) ELSE chunks)
    ELSE chunks

\* start advances past the end of the chunk, leaving one character out
chunk_text_Gaps(text, chunk_size, overlap) ==
    IF Len(text) = 0 THEN [raised |-> FALSE, chunks |-> <<>>]
    ELSE IF overlap >= chunk_size THEN [raised |-> TRUE, chunks |-> <<>>]
    ELSE [raised |-> FALSE,
          chunks |-> ChunkLoop(text, 0, chunk_size, chunk_size + 1, <<>>)]

\* raised: the ValueError of line 26
chunk_text(text, chunk_size, overlap) ==
    IF Len(text) = 0 THEN [raised |-> FALSE, chunks |-> <<>>]
    ELSE IF overlap >= chunk_size THEN [raised |-> TRUE, chunks |-> <<>>]
    ELSE [raised |-> FALSE,
          chunks |-> ChunkLoop(text, 0, chunk_size, chunk_size - overlap, <<>>)]

\* clean_text
clean_text(text) == NormalizeSpaces(text)

----------------------------------------------------------------------------
(* llm.py: the generation backend *)

\* a JSON value that is a list of strings or a single string
ListVal(l) == [str |-> FALSE, text |-> <<>>, list |-> l]
StrVal(t)  == [str |-> TRUE,  text |-> t,    list |-> <<>>]

\* a dict with the keys of the response contract; keys = the keys present
EmptyDict ==
    [keys |-> {}, caption |-> <<>>, hashtags |-> ListVal(<<>>), soft_cta |-> <<>>,
     cta |-> <<>>, disclaimer |-> <<>>, reel_script |-> ListVal(<<>>)]

\* the dict generate_json returns when the API key is missing (the dash is an em dash in the source)
StubJson ==
    [keys |-> {"caption", "hashtags", "soft_cta", "disclaimer", "reel_script"},
     caption |->
        <<"S","t","u","b"," ","c","o","n","t","e","n","t",":"," ","A","P","I"," ","k","e","y",
        " ","m","i","s","s","i","n","g",".">>,
     hashtags |-> ListVal(<<
        <<"#","S","t","u","b","M","o","d","e">>,
        <<"#","C","l","i","n","i","c","C","o","n","t","e","n","t">>>>),
     soft_cta |->
        <<"C","o","n","t","a","c","t"," ","u","s"," ","f","o","r"," ","m","o","r","e"," ","i",
        "n","f","o","r","m","a","t","i","o","n">>,
     cta |-> <<>>,
     disclaimer |->
        <<"E","d","u","c","a","t","i","o","n","a","l"," ","i","n","f","o","r","m","a","t","i",
        "o","n"," ","o","n","l","y"," ","-"," ","n","o","t"," ","m","e","d","i","c","a","l"," ",
        "a","d","v","i","c","e",".">>,
     reel_script |-> ListVal(<<
        <<"S","t","u","b"," ","r","e","e","l"," ","s","c","r","i","p","t"," ","l","i","n","e",
        " ","1">>,
        <<"S","t","u","b"," ","r","e","e","l"," ","s","c","r","i","p","t"," ","l","i","n","e",
        " ","2">>>>)]

\* what the chat completion returned: a JSON object, or text that is not one
ObjectReply(dict) == [object |-> TRUE,  raw_text |-> <<>>, dict |-> dict]
TextReply(text)   == [object |-> FALSE, raw_text |-> text, dict |-> EmptyDict]

\* llm_enabled(): bool(os.getenv("OPENAI_API_KEY"))
llm_enabled(key) == key

\* a fallback that fills the fields the text did not give with the stub's
generate_json_StubFilled(key, reply) ==
    IF ~llm_enabled(key) THEN StubJson
    ELSE IF reply.object THEN reply.dict
    ELSE [StubJson EXCEPT !.caption = reply.raw_text]

\* generate_json: key is the credential as read inside the call
generate_json(key, reply) ==
    IF ~llm_enabled(key) THEN StubJson
    ELSE IF reply.object THEN reply.dict
    ELSE [EmptyDict EXCEPT !.keys = {"caption"}, !.caption = reply.raw_text]

----------------------------------------------------------------------------
(* plan.py: the items of a plan *)

ANGLES == <<
        <<"m","y","t","h"," ","v","s"," ","f","a","c","t">>,
        <<"w","h","a","t"," ","t","o"," ","e","x","p","e","c","t">>,
        <<"s","a","f","e","t","y"," ","&"," ","t","r","u","s","t">>,
        <<"p","r","o","c","e","s","s"," ","c","l","a","r","i","t","y">>,
        <<"c","o","m","m","o","n"," ","m","i","s","t","a","k","e","s">>,
        <<"r","e","a","s","s","u","r","a","n","c","e">>>>

MonthDigits ==
    <<"2","0","2","4","0","2">>

\* every PlanItem carrying the id of the first one
PlanItemAt_SameId(client, i) ==
    [id |-> MonthDigits \o <<"-">> \o ZeroPad(Decimal(1), 3),
     pillar |-> client.content_strategy.pillars[(i % Len(client.content_strategy.pillars)) + 1],
     service |-> client.services[(i % Len(client.services)) + 1],
     platform |->
        <<"i","n","s","t","a","g","r","a","m">>,
     angle |-> ANGLES[(i % Len(ANGLES)) + 1],
     target_length |-> "short"]

\* the i-th (0-based) PlanItem the planner builds
PlanItemAt(client, i) ==
    [id |-> MonthDigits \o <<"-">> \o ZeroPad(Decimal(i + 1), 3),
     pillar |-> client.content_strategy.pillars[(i % Len(client.content_strategy.pillars)) + 1],
     service |-> client.services[(i % Len(client.services)) + 1],
     platform |->
        <<"i","n","s","t","a","g","r","a","m">>,
     angle |-> ANGLES[(i % Len(ANGLES)) + 1],
     target_length |-> "short"]

----------------------------------------------------------------------------
(* generate.py *)

\* the fixed parts of the stub caption
StubFor ==
    <<" ","f","o","r"," ">>
StubFocus ==
    <<","," ","w","e"," ","f","o","c","u","s"," ","o","n"," ","c","l","a","r","i","t","y"," ",
    "a","n","d"," ","s","a","f","e"," ","e","x","p","e","c","t","a","t","i","o","n","s",".",
    " ">>

\* a stub with no caption and no reel script
_stub_draft_Blank(item, client_name, cta, disclaimer, chunks) ==
    [keys |-> {"caption", "hashtags", "soft_cta", "disclaimer", "reel_script"},
     caption |-> <<>>,
     hashtags |-> ListVal(<<>>),
     soft_cta |-> cta,
     cta |-> <<>>,
     disclaimer |-> disclaimer,
     reel_script |-> ListVal(<<>>)]

_stub_draft(item, client_name, cta, disclaimer, chunks) ==
    LET texts == [i \in 1..Len(Take(chunks, 2)) |-> Take(chunks[i].text, 120)]
        facts == Strip(JoinSpace(texts))
    IN [keys |-> {"caption", "hashtags", "soft_cta", "disclaimer", "reel_script"},
        caption |-> Strip(Title(item.angle) \o StubFor \o item.service \o <<".", " ">>
                          \o <<"A", "t", " ">> \o client_name \o StubFocus \o facts),
        hashtags |-> ListVal(<<
        <<"#","C","l","i","n","i","c","E","d","u","c","a","t","i","o","n">>,
        <<"#","P","a","t","i","e","n","t","F","i","r","s","t">>,
        <<"#","H","e","a","l","t","h","c","a","r","e">>,
        <<"#","I","n","f","o","r","m","e","d","D","e","c","i","s","i","o","n","s">>,
        <<"#","T","o","r","o","n","t","o">>>>),
        soft_cta |-> cta,
        cta |-> <<>>,
        disclaimer |-> disclaimer,
        reel_script |-> ListVal(<<
        <<"H","o","o","k",":"," ","O","n","e"," ","t","h","i","n","g"," ","p","e","o","p","l",
        "e"," ","o","f","t","e","n"," ","m","i","s","u","n","d","e","r","s","t","a","n","d",
        ".">>,
        <<"P","o","i","n","t"," ","1",":"," ","W","h","a","t"," ","t","o"," ","e","x","p","e",
        "c","t"," ","i","n"," ","s","i","m","p","l","e"," ","t","e","r","m","s",".">>,
        <<"P","o","i","n","t"," ","2",":"," ","S","a","f","e","t","y"," ","a","n","d"," ","r",
        "e","a","l","i","s","t","i","c"," ","e","x","p","e","c","t","a","t","i","o","n","s",
        ".">>,
        <<"C", "T", "A", ":", " ">> \o cta>>)]

\* the hashtags substituted when the backend supplies none
DefaultHashtags == <<
        <<"#","C","l","i","n","i","c","E","d","u","c","a","t","i","o","n">>,
        <<"#","P","a","t","i","e","n","t","C","a","r","e">>,
        <<"#","H","e","a","l","t","h","c","a","r","e">>,
        <<"#","T","o","r","o","n","t","o">>,
        <<"#","W","e","l","l","n","e","s","s">>>>

MaxHashtags == 10

DefaultCtaText ==
    <<"C","o","n","t","a","c","t"," ","u","s"," ","t","o"," ","l","e","a","r","n"," ","m","o",
    "r","e">>

\* dict.get(key, default) for the string-valued keys
GetText(dict, key, default) == IF key \in dict.keys THEN dict[key] ELSE default

\* hashtags = raw.get("hashtags", []); a str is split and filtered; empty -> defaults
GenerateHashtags(raw) ==
    LET value == IF "hashtags" \in raw.keys THEN raw.hashtags ELSE ListVal(<<>>)
        words == Split(value.text)
        kept  == SelectSeq([i \in 1..Len(words) |-> Strip(words[i])], StartsWithHash)
        tags  == IF value.str THEN kept ELSE value.list
    IN IF Len(tags) = 0 THEN DefaultHashtags ELSE tags

\* reel_script = raw.get("reel_script", []); a str is split into stripped non-empty lines
GenerateReelScript(raw) ==
    LET value == IF "reel_script" \in raw.keys THEN raw.reel_script ELSE ListVal(<<>>)
        lines == NonEmptyLines(value.text)
        kept  == SelectSeq([i \in 1..Len(lines) |-> Strip(lines[i])], LAMBDA l : Len(l) > 0)
    IN IF value.str THEN kept ELSE value.list

\* selected = retrieved[: max(2, min(5, len(retrieved)))] if retrieved else kb_chunks[:2]
SelectChunks(item, kb_chunks) ==
    LET query == item.pillar \o <<" ">> \o item.service \o <<" ">> \o item.angle
        retrieved == retrieve_relevant_chunks(query, kb_chunks, 5)
        n == IF Len(retrieved) < 5 THEN Len(retrieved) ELSE 5
    IN IF Len(retrieved) > 0 THEN Take(retrieved, IF n > 2 THEN n ELSE 2)
       ELSE Take(kb_chunks, 2)

\* default_cta = client.ctas.soft[0] if client.ctas.soft else "Contact us to learn more"
DefaultCta(client) == IF Len(client.ctas.soft) > 0 THEN client.ctas.soft[1] ELSE DefaultCtaText

\* the raw dict of one plan item: the backend's answer, or the stub
RawDraft(item, client, kb_chunks, enabled, call) ==
    IF enabled THEN generate_json(call.key, call.reply)
    ELSE _stub_draft(item, client.client_name, DefaultCta(client), client.disclaimers.default,
                     SelectChunks(item, kb_chunks))

\* the body of the loop over plan items: one DraftItem
MakeDraft(item, client, kb_chunks, enabled, call) ==
    LET selected == SelectChunks(item, kb_chunks)
        raw == RawDraft(item, client, kb_chunks, enabled, call)
    IN [id |-> item.id,
        platform |-> item.platform,
        pillar |-> item.pillar,
        service |-> item.service,
        angle |-> item.angle,
        caption |-> GetText(raw, "caption", <<>>),
        hashtags |-> Take(GenerateHashtags(raw), MaxHashtags),
        cta |-> GetText(raw, "soft_cta", DefaultCta(client)),
        disclaimer |-> GetText(raw, "disclaimer", client.disclaimers.default),
        reel_script |-> GenerateReelScript(raw),
        retrieved_chunks |-> [i \in 1..Len(selected) |-> selected[i].chunk_id]]

\* drafts, in the order of the plan items, reversed
GenerateAll_Reversed(items, client, kb_chunks, enabled, calls) ==
    [i \in 1..Len(items) |->
        MakeDraft(items[Len(items) + 1 - i], client, kb_chunks, enabled, calls[Len(items) + 1 - i])]

\* for item in items: drafts.append(DraftItem(...))
GenerateAll(items, client, kb_chunks, enabled, calls) ==
    [i \in 1..Len(items) |-> MakeDraft(items[i], client, kb_chunks, enabled, calls[i])]

----------------------------------------------------------------------------
(* review.py *)

\* local repair marked as fixed
ReviewStatus_LocalFixed(ok, enabled) == IF ok THEN "PASS" ELSE "FIXED"

\* the status each branch of the loop body assigns
ReviewStatus(ok, enabled) ==
    IF ok THEN "PASS" ELSE IF enabled THEN "FIXED" ELSE "FAIL"

\* final_hashtags = fixed.get("hashtags", draft.hashtags); a str is split and filtered
FixedHashtags(fixed, draft) ==
    IF "hashtags" \notin fixed.keys THEN draft.hashtags
    ELSE IF fixed.hashtags.str THEN SelectSeq(Split(fixed.hashtags.text), StartsWithHash)
    ELSE fixed.hashtags.list

\* final_reel_script = fixed.get("reel_script", draft.reel_script); a str keeps its non-blank lines
FixedReelScript(fixed, draft) ==
    IF "reel_script" \notin fixed.keys THEN draft.reel_script
    ELSE IF fixed.reel_script.str
         THEN SelectSeq(NonEmptyLines(fixed.reel_script.text), LAMBDA l : Len(Strip(l)) > 0)
    ELSE fixed.reel_script.list

\* the body of the loop over drafts: one ReviewedItem
ReviewDraft(draft, guardrails, client, enabled, call) ==
    LET result  == evaluate_draft(draft, guardrails, client.disclaimers.default)
        status  == ReviewStatus(result.ok, enabled)
        fixed   == generate_json(call.key, call.reply)
        patched == apply_rewrite_fixes(draft.caption, draft.disclaimer, guardrails,
                                       client.disclaimers.default)
    IN [id |-> draft.id,
        platform |-> draft.platform,
        pillar |-> draft.pillar,
        service |-> draft.service,
        status |-> status,
        reasons |-> IF ~result.ok /\ ~enabled
                    THEN result.reasons \o <<SuggestedReason>> ELSE result.reasons,
        final_caption |->
            IF result.ok THEN draft.caption
            ELSE IF enabled THEN GetText(fixed, "caption", draft.caption)
            ELSE patched.caption,
        final_hashtags |->
            IF ~result.ok /\ enabled THEN FixedHashtags(fixed, draft) ELSE draft.hashtags,
        final_cta |->
            IF ~result.ok /\ enabled THEN GetText(fixed, "cta", draft.cta) ELSE draft.cta,
        final_disclaimer |->
            IF result.ok
            THEN (IF Len(draft.disclaimer) > 0 THEN draft.disclaimer
                  ELSE client.disclaimers.default)
            ELSE IF enabled THEN GetText(fixed, "disclaimer", client.disclaimers.default)
            ELSE patched.disclaimer,
        reel_script |->
            IF ~result.ok /\ enabled THEN FixedReelScript(fixed, draft) ELSE draft.reel_script]

\* a review that writes no reasons
ReviewAll_NoReasons(rows, guardrails, client, enabled, calls) ==
    [i \in 1..Len(rows) |->
        [ReviewDraft(rows[i], guardrails, client, enabled, calls[i]) EXCEPT !.reasons = <<>>]]

\* for draft in drafts: reviewed.append(ReviewedItem(...))
ReviewAll(rows, guardrails, client, enabled, calls) ==
    [i \in 1..Len(rows) |-> ReviewDraft(rows[i], guardrails, client, enabled, calls[i])]

----------------------------------------------------------------------------
(* Inputs of the guardrail functions *)

Alphabet == {"a", "A", "b", " "}

\* every caption of at most MaxCaptionLen characters
Captions == UNION {[1..n -> Alphabet] : n \in 0..MaxCaptionLen}

PhraseLists  == {<<>>, <<<<"a","B">>>>, <<<<"a","a">>, <<"b">>>>, <<<<"b">>, <<"a"," ","b">>>>}
PatternLists == {<<>>, <<<<Lit("a"), LitPlus("b")>>>>}
KeywordLists == {<<>>, <<<<"B">>, <<"a","a">>>>}

GuardrailSets ==
    {[banned_phrases |-> ps, banned_claim_patterns |-> rs,
      disclaimer_rules |-> [always_include_default_disclaimer |-> f,
                            must_include_disclaimer_if_keywords |-> ks]] :
        ps \in PhraseLists, rs \in PatternLists, f \in BOOLEAN, ks \in KeywordLists}

DefaultDisclaimer == <<"d">>
Disclaimers == {<<"x">>, <<"x", "D">>}
CtaTags == {[cta |-> <<>>, hashtags |-> <<>>],
            [cta |-> <<"A">>, hashtags |-> <<<<"#","a">>, <<"#","b">>>>]}

GInputs ==
    {[draft |-> [caption |-> c, cta |-> t.cta, hashtags |-> t.hashtags, disclaimer |-> d],
      guardrails |-> g, default_disclaimer |-> DefaultDisclaimer] :
        c \in Captions, t \in CtaTags, d \in Disclaimers, g \in GuardrailSets}

NoEval == [ok |-> TRUE, reasons |-> <<>>]
NoFix  == [caption |-> <<>>, disclaimer |-> <<>>]

----------------------------------------------------------------------------
(* The client directory: configuration, sources, backend answers *)

File(rows) == [exists |-> TRUE, rows |-> rows]
Missing    == [exists |-> FALSE, rows |-> <<>>]

Ids(rows) == [i \in 1..Len(rows) |-> rows[i].id]

\* the rule set of tests/test_guardrails.py (make_guardrails)
GuardrailsTest ==
    [banned_phrases |-> <<
        <<"g","u","a","r","a","n","t","e","e","d">>,
        <<"r","i","s","k","-","f","r","e","e">>>>,
     \* (?i)results\s+in\s+\d+\s+days
     banned_claim_patterns |-> <<
        [i \in 1..7 |-> LitI(<<"r","e","s","u","l","t","s">>[i])] \o <<Spaces>>
        \o <<LitI("i"), LitI("n"), Spaces, Digits, Spaces>>
        \o [i \in 1..4 |-> LitI(<<"d","a","y","s">>[i])]>>,
     disclaimer_rules |->
        [always_include_default_disclaimer |-> TRUE,
         must_include_disclaimer_if_keywords |-> <<
            <<"r","e","s","u","l","t","s">>,
            <<"r","e","c","o","v","e","r","y">>>>]]

\* a rule set with no rule
GuardrailsNone ==
    [banned_phrases |-> <<>>, banned_claim_patterns |-> <<>>,
     disclaimer_rules |-> [always_include_default_disclaimer |-> FALSE,
                           must_include_disclaimer_if_keywords |-> <<>>]]

ClientWith(soft) ==
    [client_name |->
        <<"A","m","m","c">>,
     ctas |-> [soft |-> soft],
     disclaimers |-> [default |->
        <<"N","o","t"," ","m","e","d","i","c","a","l"," ","a","d","v","i","c","e",".">>],
     content_strategy |-> [pillars |-> <<
        <<"S","a","f","e","t","y">>,
        <<"P","r","o","c","e","s","s">>>>],
     services |-> <<
        <<"C","o","n","s","u","l","t","a","t","i","o","n","s">>,
        <<"R","e","c","o","v","e","r","y"," ","s","u","p","p","o","r","t">>>>]

Configs ==
    {[client |-> ClientWith(<<
        <<"S","e","n","d"," ","u","s"," ","a"," ","m","e","s","s","a","g","e">>>>), guardrails |-> GuardrailsTest],
     [client |-> ClientWith(<<>>), guardrails |-> GuardrailsNone]}

SourceFile(stem, text) == [stem |-> stem, text |-> text]

\* sources directories: two documents; one blank document; no document
SourceDirs ==
    {<<SourceFile(
        <<"c","a","r","e">>,
        <<"C","o","n","s","u","l","t","a","t","i","o","n","s"," ","e","x","p","l","a","i","n",
        " "," ","w","h","a","t"," ","t","o"," ","e","x","p","e","c","t",".">>),
       SourceFile(
        <<"f","a","q">>,
        <<"R","e","c","o","v","e","r","y"," ","t","a","k","e","s"," ","t","i","m","e",".","\n">>)>>,
     <<SourceFile(
        <<"f","a","q">>, <<" ", "\n">>)>>,
     <<>>}

\* one more hashtag than a record may carry
ManyHashtags == [i \in 1..(MaxHashtags + 1) |-> <<"#", "t">> \o ZeroPad(Decimal(i), 2)]

\* answers of the backend: an object that breaks the rules of GuardrailsTest,
\* text that is not JSON, and an object with string-typed hashtags
Replies ==
    <<ObjectReply([EmptyDict EXCEPT
        !.keys = {"caption", "hashtags", "soft_cta", "reel_script"},
        !.caption =
        <<"G","u","a","r","a","n","t","e","e","d"," ","r","e","s","u","l","t","s"," ","i","n",
        " ","5"," ","d","a","y","s">>,
        !.hashtags = ListVal(ManyHashtags),
        !.soft_cta =
        <<"C","a","l","l"," ","t","o","d","a","y">>,
        !.reel_script = StrVal(
        <<"H","o","o","k","\n"," ","\n","C","l","o","s","e"," ">>)]),
     TextReply(
        <<"S","o","r","r","y">>),
     ObjectReply([EmptyDict EXCEPT
        !.keys = {"caption", "hashtags", "cta", "disclaimer", "reel_script"},
        !.caption =
        <<"S","a","f","e"," ","c","a","r","e">>,
        !.hashtags = StrVal(
        <<"#","c","a","r","e"," ","t","i","p","s"," "," ","#","s","a","f","e">>),
        !.cta =
        <<"B","o","o","k"," ","a"," ","v","i","s","i","t">>,
        !.disclaimer =
        <<"A","s","k"," ","y","o","u","r"," ","d","o","c","t","o","r",".">>,
        !.reel_script = ListVal(<<
        <<"O","n","e">>>>)])>>

\* one call of generate_json: the credential it reads and the backend's answer
Calls ==
    [i \in 1..Len(Replies) |-> [key |-> TRUE, reply |-> Replies[i]]]
    \o <<[key |-> FALSE, reply |-> TextReply(<<>>)]>>

\* what the successive calls of one command meet: the calls in turn, the first
\* one meeting any of the backend's answers
CallScripts ==
    {[i \in 1..MaxItems |-> Calls[((i - 1 + r) % Len(Calls)) + 1]] :
        r \in 0..(Len(Replies) - 1)}

\* a command that calls no backend
NoCalls == [i \in 1..MaxItems |-> [key |-> FALSE, reply |-> TextReply(<<>>)]]

\* client directories: the test rule set with two documents, no rule with a
\* blank document, the test rule set with no document
Clients ==
    {[cfg |-> CHOOSE c \in Configs : c.guardrails = GuardrailsTest,
      sources |-> CHOOSE d \in SourceDirs : Len(d) = 2],
     [cfg |-> CHOOSE c \in Configs : c.guardrails = GuardrailsNone,
      sources |-> CHOOSE d \in SourceDirs : Len(d) = 1],
     [cfg |-> CHOOSE c \in Configs : c.guardrails = GuardrailsTest,
      sources |-> <<>>]}

----------------------------------------------------------------------------
(* Inputs of retrieve_relevant_chunks and of chunk_text *)

CorpusTexts == {<<"a">>, <<"b">>, <<"a", " ", "b">>, <<"c">>}

Queries == {<<>>, <<"a">>, <<"A", " ", "b">>, <<"d">>}

\* the rows of a kb_chunks.jsonl holding the given texts
MakeCorpus(texts) ==
    [i \in 1..Len(texts) |->
        [source_file |-> <<"s","o","u","r","c","e","s","/","d","o","c">>,
         chunk_id |-> <<"d","o","c","-">> \o ZeroPad(Decimal(i - 1), 4),
         text |-> texts[i]]]

Corpora == {MakeCorpus(t) : t \in UNION {[1..n -> CorpusTexts] : n \in 0..MaxCorpus}}

RInputs == [query : Queries, chunks : Corpora, top_k : 1..MaxTopK]

TextAlphabet == {"x", "y"}

Texts == UNION {[1..n -> TextAlphabet] : n \in 0..MaxTextLen}

CInputs == [text : Texts, chunk_size : 1..MaxChunkSize, overlap : 0..MaxChunkSize]

NoChunks == [raised |-> FALSE, chunks |-> <<>>]

----------------------------------------------------------------------------
(* The commands *)

\* the mode a value of llm_enabled() stands for
Mode(enabled) == IF enabled THEN "live" ELSE "stub"

\* no command has read llm_enabled() yet
NoReads == [generate |-> {}, review |-> {}]

PipelineIdle ==
    /\ apiKey = FALSE
    /\ cfg = CHOOSE c \in Configs : c.guardrails = GuardrailsNone
    /\ sources = <<>>
    /\ kb = Missing
    /\ plan = Missing
    /\ drafts = Missing
    /\ reviewed = Missing
    /\ reads = NoReads

GuardIdle ==
    /\ gin = CHOOSE x \in GInputs : TRUE
    /\ gpc = "idle"
    /\ gEval = NoEval
    /\ gFix = NoFix
    /\ gFix2 = NoFix

RetrieveIdle ==
    /\ rin = [query |-> <<>>, chunks |-> <<>>, top_k |-> 1]
    /\ rpc = "idle"
    /\ rout = <<>>
    /\ rout2 = <<>>

ChunkIdle ==
    /\ cin = [text |-> <<>>, chunk_size |-> 1, overlap |-> 0]
    /\ cpc = "idle"
    /\ cout = NoChunks

Init ==
    /\ GuardIdle
    /\ RetrieveIdle
    /\ ChunkIdle
    /\ apiKey \in BOOLEAN
    /\ \E c \in Clients, n \in 1..MaxItems :
          /\ cfg = [client |-> c.cfg.client, guardrails |-> c.cfg.guardrails,
                    total_posts |-> n]
          /\ sources = c.sources
    /\ kb = Missing
    /\ plan = Missing
    /\ drafts = Missing
    /\ reviewed = Missing
    /\ reads = NoReads

\* the credential is set or removed between two commands
SetCredential ==
    /\ apiKey' = ~apiKey
    /\ UNCHANGED <<cfg, sources, kb, plan, drafts, reviewed, reads>>
    /\ UNCHANGED gvars
    /\ UNCHANGED uvars

\* the chunks run_ingest builds from one source file
FileChunks(file) ==
    LET chunks == chunk_text(clean_text(file.text), ChunkSize, ChunkOverlap).chunks
    IN [idx \in 1..Len(chunks) |->
           [source_file |-> <<"s","o","u","r","c","e","s","/">> \o file.stem,
            chunk_id |-> file.stem \o <<"-">> \o ZeroPad(Decimal(idx - 1), 4),
            text |-> chunks[idx]]]

RECURSIVE AllChunks(_)
AllChunks(files) ==
    IF Len(files) = 0 THEN <<>> ELSE FileChunks(Head(files)) \o AllChunks(Tail(files))

run_ingest ==
    /\ IF Len(sources) = 0
       THEN UNCHANGED kb    \* FileNotFoundError
       ELSE kb' = File(AllChunks(sources))
    /\ UNCHANGED <<apiKey, cfg, sources, plan, drafts, reviewed, reads>>
    /\ UNCHANGED gvars
    /\ UNCHANGED uvars

\* total_posts = max(1, round(posts_per_week * days_in_month / 7)) is fixed by
\* client.yaml and the month: cfg.total_posts
run_plan ==
    /\ plan' = File([i \in 1..cfg.total_posts |-> PlanItemAt(cfg.client, i - 1)])
    /\ UNCHANGED <<apiKey, cfg, sources, kb, drafts, reviewed, reads>>
    /\ UNCHANGED gvars
    /\ UNCHANGED uvars

run_generate ==
    /\ IF ~kb.exists \/ ~plan.exists
       THEN UNCHANGED <<apiKey, drafts, reads>>    \* FileNotFoundError
       ELSE IF Len(plan.rows) = 0
       THEN UNCHANGED <<apiKey, drafts, reads>>    \* ValueError
       ELSE LET items == plan.rows
                enabled == llm_enabled(apiKey)
            IN \E calls \in (IF enabled THEN CallScripts ELSE {NoCalls}) :
                  /\ drafts' = File(GenerateAll(items, cfg.client, kb.rows, enabled, calls))
                  /\ apiKey' = IF enabled THEN calls[Len(items)].key ELSE apiKey
                  /\ reads' = [reads EXCEPT !.generate = {Mode(enabled)}]
    /\ UNCHANGED <<cfg, sources, kb, plan, reviewed>>
    /\ UNCHANGED gvars
    /\ UNCHANGED uvars

\* a review that consumes the drafts file
run_review_DropsDrafts ==
    /\ drafts.exists
    /\ Len(drafts.rows) > 0
    /\ reviewed' = File(ReviewAll(drafts.rows, cfg.guardrails, cfg.client, FALSE, NoCalls))
    /\ reads' = [reads EXCEPT !.review = {Mode(FALSE)}]
    /\ drafts' = Missing
    /\ UNCHANGED <<apiKey, cfg, sources, kb, plan>>
    /\ UNCHANGED gvars
    /\ UNCHANGED uvars

run_review ==
    /\ IF ~drafts.exists
       THEN UNCHANGED <<apiKey, reviewed, reads>>    \* FileNotFoundError
       ELSE IF Len(drafts.rows) = 0
       THEN UNCHANGED <<apiKey, reviewed, reads>>    \* ValueError
       ELSE LET rows == drafts.rows
                enabled == llm_enabled(apiKey)
            IN \E calls \in (IF enabled THEN CallScripts ELSE {NoCalls}) :
                  LET out == ReviewAll(rows, cfg.guardrails, cfg.client, enabled, calls)
                      \* the drafts for which generate_json was called
                      called == {i \in 1..Len(rows) : out[i].status = "FIXED"}
                  IN /\ reviewed' = File(out)
                     /\ apiKey' = IF called = {} THEN apiKey
                                  ELSE calls[CHOOSE i \in called : \A j \in called : j <= i].key
                     /\ reads' = [reads EXCEPT !.review = {Mode(enabled)}]
    /\ UNCHANGED <<cfg, sources, kb, plan, drafts>>
    /\ UNCHANGED gvars
    /\ UNCHANGED uvars

Next ==
    \/ SetCredential
    \/ run_ingest
    \/ run_plan
    \/ run_generate
    \/ run_review

Spec == Init /\ [][Next]_vars

----------------------------------------------------------------------------
(* The guardrail functions called on their own *)

GInit ==
    /\ PipelineIdle
    /\ RetrieveIdle
    /\ ChunkIdle
    /\ gin \in GInputs
    /\ gpc = "input"
    /\ gEval = NoEval
    /\ gFix = NoFix
    /\ gFix2 = NoFix

\* result = evaluate_draft(draft, guardrails, default)
Evaluate ==
    /\ gpc = "input"
    /\ gEval' = evaluate_draft(gin.draft, gin.guardrails, gin.default_disclaimer)
    /\ gpc' = "evaluated"
    /\ UNCHANGED <<gin, gFix, gFix2>>
    /\ UNCHANGED pvars
    /\ UNCHANGED uvars

\* patched = apply_rewrite_fixes(caption, disclaimer, guardrails, default)
Rewrite ==
    /\ gpc = "input"
    /\ gFix' = apply_rewrite_fixes(gin.draft.caption, gin.draft.disclaimer,
                                   gin.guardrails, gin.default_disclaimer)
    /\ gpc' = "rewritten"
    /\ UNCHANGED <<gin, gEval, gFix2>>
    /\ UNCHANGED pvars
    /\ UNCHANGED uvars

\* apply_rewrite_fixes applied to its own output
RewriteAgain ==
    /\ gpc = "rewritten"
    /\ gFix2' = apply_rewrite_fixes(gFix.caption, gFix.disclaimer,
                                    gin.guardrails, gin.default_disclaimer)
    /\ gpc' = "rewritten twice"
    /\ UNCHANGED <<gin, gEval, gFix>>
    /\ UNCHANGED pvars
    /\ UNCHANGED uvars

GNext == Evaluate \/ Rewrite \/ RewriteAgain

SpecGuard == GInit /\ [][GNext]_vars

----------------------------------------------------------------------------
(* retrieve_relevant_chunks called on its own *)

RInit ==
    /\ PipelineIdle
    /\ GuardIdle
    /\ ChunkIdle
    /\ rin \in RInputs
    /\ rpc = "input"
    /\ rout = <<>>
    /\ rout2 = <<>>

\* retrieved = retrieve_relevant_chunks(query, chunks, top_k)
Retrieve ==
    /\ rpc = "input"
    /\ rout' = retrieve_relevant_chunks(rin.query, rin.chunks, rin.top_k)
    /\ rpc' = "retrieved"
    /\ UNCHANGED <<rin, rout2, cin, cpc, cout>>
    /\ UNCHANGED pvars
    /\ UNCHANGED gvars

\* the same call made once more
RetrieveAgain ==
    /\ rpc = "retrieved"
    /\ rout2' = retrieve_relevant_chunks(rin.query, rin.chunks, rin.top_k)
    /\ rpc' = "retrieved twice"
    /\ UNCHANGED <<rin, rout, cin, cpc, cout>>
    /\ UNCHANGED pvars
    /\ UNCHANGED gvars

RNext == Retrieve \/ RetrieveAgain

SpecRetrieve == RInit /\ [][RNext]_vars

----------------------------------------------------------------------------
(* chunk_text called on its own *)

CInit ==
    /\ PipelineIdle
    /\ GuardIdle
    /\ RetrieveIdle
    /\ cin \in CInputs
    /\ cpc = "input"
    /\ cout = NoChunks

\* chunks = chunk_text(text, chunk_size, overlap)
Chunk ==
    /\ cpc = "input"
    /\ cout' = chunk_text(cin.text, cin.chunk_size, cin.overlap)
    /\ cpc' = "called"
    /\ UNCHANGED <<cin, rin, rpc, rout, rout2>>
    /\ UNCHANGED pvars
    /\ UNCHANGED gvars

CNext == Chunk

SpecChunk == CInit /\ [][CNext]_vars

----------------------------------------------------------------------------
(* Properties of the guardrail functions (checked under SpecGuard) *)

\* a is b with some elements left out, order kept
IsSubsequence(a, b) ==
    \E f \in [1..Len(a) -> 1..Len(b)] :
        /\ \A i \in 1..Len(a) : a[i] = b[f[i]]
        /\ \A i \in 1..Len(a), j \in 1..Len(a) : i < j => f[i] < f[j]

KindRank(kind) ==
    CASE kind = "Banned phrase detected" -> 1
      [] kind = "Banned claim pattern matched" -> 2
      [] kind = "Disclaimer required due to keyword" -> 3
      [] kind = "Default disclaimer missing" -> 4
      [] OTHER -> 5

OfKind(reasons, kind) == SelectSeq(reasons, LAMBDA r : r.kind = kind)

\* keyword occurs, in any letter-casing, in the caption, the CTA or a hashtag
KeywordOccurs(keyword, draft) ==
    \/ IsSubstring(Lower(keyword), Lower(draft.caption))
    \/ IsSubstring(Lower(keyword), Lower(draft.cta))
    \/ \E i \in 1..Len(draft.hashtags) : IsSubstring(Lower(keyword), Lower(draft.hashtags[i]))

\* C3: evaluate_draft returns ok exactly when reasons is empty, and reasons
\* lists banned-phrase reasons first (in banned_phrases order), then
\* banned-claim-pattern reasons (in banned_claim_patterns order), then keyword
\* reasons (in keyword order), then at most one "Default disclaimer missing".
C3_ReasonsOrdered ==
    gpc = "evaluated" =>
        LET rs == gEval.reasons
            g  == gin.guardrails
        IN /\ gEval.ok <=> (rs = <<>>)
           /\ \A i \in 1..Len(rs), j \in 1..Len(rs) :
                  i < j => KindRank(rs[i].kind) <= KindRank(rs[j].kind)
           /\ \A i \in 1..Len(rs) : KindRank(rs[i].kind) <= 4
           /\ IsSubsequence([i \in 1..Len(OfKind(rs, "Banned phrase detected")) |->
                                 OfKind(rs, "Banned phrase detected")[i].text],
                            g.banned_phrases)
           /\ IsSubsequence([i \in 1..Len(OfKind(rs, "Banned claim pattern matched")) |->
                                 OfKind(rs, "Banned claim pattern matched")[i].pattern],
                            g.banned_claim_patterns)
           /\ IsSubsequence([i \in 1..Len(OfKind(rs, "Disclaimer required due to keyword")) |->
                                 OfKind(rs, "Disclaimer required due to keyword")[i].text],
                            g.disclaimer_rules.must_include_disclaimer_if_keywords)
           /\ Len(OfKind(rs, "Default disclaimer missing")) <= 1

\* an evaluation that reported reasons of all four categories
C3_Witness ==
    /\ gpc = "evaluated"
    /\ ~gEval.ok
    /\ Len(OfKind(gEval.reasons, "Banned phrase detected")) = 2
    /\ Len(OfKind(gEval.reasons, "Banned claim pattern matched")) = 1
    /\ Len(OfKind(gEval.reasons, "Disclaimer required due to keyword")) = 2
    /\ Len(OfKind(gEval.reasons, "Default disclaimer missing")) = 1

\* C4: local repair is idempotent: apply_rewrite_fixes applied to its own
\* output (caption and disclaimer) returns that output again.
C4_RepairIdempotent ==
    gpc = "rewritten twice" => gFix2 = gFix

\* C6: when a trigger keyword occurs (any casing) in caption, CTA or hashtags
\* and the disclaimer lacks the default disclaimer, evaluate_draft returns
\* ok = false with a keyword reason for each such keyword and a "Default
\* disclaimer missing" reason, whatever always_include_default_disclaimer is.
C6_KeywordForcesDisclaimer ==
    gpc = "evaluated" =>
        LET keywords == gin.guardrails.disclaimer_rules.must_include_disclaimer_if_keywords
            hits == {i \in 1..Len(keywords) : KeywordOccurs(keywords[i], gin.draft)}
        IN (/\ hits # {}
            /\ ~IsSubstring(Lower(gin.default_disclaimer), Lower(gin.draft.disclaimer)))
           => /\ ~gEval.ok
              /\ \A i \in hits : KeywordReason(keywords[i]) \in Range(gEval.reasons)
              /\ MissingReason \in Range(gEval.reasons)

\* the flag is off, a keyword occurs in another casing, the disclaimer lacks the default
C6_Witness ==
    /\ gpc = "evaluated"
    /\ ~gin.guardrails.disclaimer_rules.always_include_default_disclaimer
    /\ gin.guardrails.banned_phrases = <<>>
    /\ gin.guardrails.banned_claim_patterns = <<>>
    /\ \E i \in 1..Len(gin.guardrails.disclaimer_rules.must_include_disclaimer_if_keywords) :
           KeywordOccurs(gin.guardrails.disclaimer_rules.must_include_disclaimer_if_keywords[i],
                         gin.draft)
    /\ ~IsSubstring(Lower(gin.default_disclaimer), Lower(gin.draft.disclaimer))
    /\ MissingReason \in Range(gEval.reasons)

\* C7: for every banned phrase, evaluate_draft reports "Banned phrase detected"
\* for it (and ok = false) exactly when the lower-cased phrase is a substring of
\* the lower-cased text of caption, CTA and hashtags.
C7_BannedPhraseAnyCase ==
    gpc = "evaluated" =>
        \A i \in 1..Len(gin.guardrails.banned_phrases) :
            LET phrase == gin.guardrails.banned_phrases[i]
                found  == PhraseReason(phrase) \in Range(gEval.reasons)
            IN /\ found <=> IsSubstring(Lower(phrase), Lower(DraftText(gin.draft)))
               /\ found => ~gEval.ok

\* the phrase "aB" reported for a caption that spells it "Ab"
C7_Witness ==
    /\ gpc = "evaluated"
    /\ PhraseReason(<<"a", "B">>) \in Range(gEval.reasons)
    /\ IsSubstring(<<"A", "b">>, gin.draft.caption)
    /\ ~IsSubstring(<<"a", "B">>, DraftText(gin.draft))

\* C8: for every banned claim pattern, evaluate_draft reports "Banned claim
\* pattern matched" for it (and ok = false) exactly when the pattern matches
\* somewhere in the original-case text of caption, CTA and hashtags.
C8_ClaimPatternOriginalCase ==
    gpc = "evaluated" =>
        \A i \in 1..Len(gin.guardrails.banned_claim_patterns) :
            LET pattern == gin.guardrails.banned_claim_patterns[i]
                found   == PatternReason(pattern) \in Range(gEval.reasons)
            IN /\ found <=> ReSearch(pattern, DraftText(gin.draft))
               /\ found => ~gEval.ok

\* a pattern reported for a caption it matches, with nothing else to report
C8_Witness ==
    /\ gpc = "evaluated"
    /\ Len(gEval.reasons) = 1
    /\ gEval.reasons[1].kind = "Banned claim pattern matched"
    /\ ReSearch(gEval.reasons[1].pattern, gin.draft.caption)

\* C9: the caption returned by apply_rewrite_fixes contains no banned phrase
\* of the rule set as a case-insensitive substring.
C9_NoBannedPhraseLeft ==
    gpc = "rewritten" =>
        \A i \in 1..Len(gin.guardrails.banned_phrases) :
            ~IsSubstring(Lower(gin.guardrails.banned_phrases[i]), Lower(gFix.caption))

----------------------------------------------------------------------------
(* Properties of the pipeline commands (checked under Spec) *)

\* a step of run_review that wrote a new reviewed.jsonl
ReviewWrote == reviewed' # reviewed

\* a step of run_generate that wrote a new drafts.jsonl
GenerateWrote == drafts' # drafts

\* C1: for every draft run_review processes, the status is PASS iff
\* evaluate_draft returns ok, FIXED iff it returns not ok and the backend flag
\* read at the start of the command is set, FAIL iff it returns not ok and the
\* flag is not set; a row that carries the local repair's "Suggested fix"
\* reason has status FAIL.
C1_StatusByEvaluatorAndFlag ==
    [][ReviewWrote =>
        /\ Len(reviewed'.rows) = Len(drafts.rows)
        /\ \A i \in 1..Len(drafts.rows) :
              LET ok      == evaluate_draft(drafts.rows[i], cfg.guardrails,
                                            cfg.client.disclaimers.default).ok
                  enabled == llm_enabled(apiKey)
                  row     == reviewed'.rows[i]
              IN /\ row.status \in {"PASS", "FIXED", "FAIL"}
                 /\ (row.status = "PASS") <=> ok
                 /\ (row.status = "FIXED") <=> (~ok /\ enabled)
                 /\ (row.status = "FAIL") <=> (~ok /\ ~enabled)
                 /\ SuggestedReason \in Range(row.reasons) => row.status = "FAIL"]_vars

\* a draft that fails evaluation was reviewed without backend: it is FAIL and
\* its final caption is the locally repaired one, not the draft's
C1_Witness ==
    /\ drafts.exists
    /\ reviewed.exists
    /\ \E i \in 1..Len(reviewed.rows) :
          /\ i <= Len(drafts.rows)
          /\ reviewed.rows[i].id = drafts.rows[i].id
          /\ ~evaluate_draft(drafts.rows[i], cfg.guardrails,
                             cfg.client.disclaimers.default).ok
          /\ reviewed.rows[i].status = "FAIL"
          /\ SuggestedReason \in Range(reviewed.rows[i].reasons)
          /\ reviewed.rows[i].final_caption # drafts.rows[i].caption

\* C2: the ids run_generate writes are the ids of the plan it read, in the same
\* order, and the ids run_review writes are the ids of the drafts it read, in
\* the same order, whatever the status of each row.
C2_IdsInOrder ==
    [][/\ GenerateWrote => Ids(drafts'.rows) = Ids(plan.rows)
       /\ ReviewWrote => Ids(reviewed'.rows) = Ids(drafts.rows)]_vars

\* plan, drafts and reviewed hold the same two or more ids in the same order,
\* and the reviewed rows went through different branches
C2_Witness ==
    /\ plan.exists /\ drafts.exists /\ reviewed.exists
    /\ Len(plan.rows) >= 2
    /\ Ids(drafts.rows) = Ids(plan.rows)
    /\ Ids(reviewed.rows) = Ids(drafts.rows)
    /\ \E i, j \in 1..Len(reviewed.rows) :
          /\ reviewed.rows[i].id # reviewed.rows[j].id
          /\ reviewed.rows[i].status # reviewed.rows[j].status

\* the row the assisted rewrite is described to produce from the backend's
\* object: each field of the response contract when supplied, else the draft's
FieldwiseRewrite(draft, fixed) ==
    [final_caption |-> GetText(fixed, "caption", draft.caption),
     final_hashtags |-> FixedHashtags(fixed, draft),
     final_cta |-> GetText(fixed, "soft_cta", draft.cta),
     final_disclaimer |-> GetText(fixed, "disclaimer", draft.disclaimer),
     reel_script |-> FixedReelScript(fixed, draft)]

\* C5: every FIXED row run_review writes carries, for caption, hashtags, CTA,
\* disclaimer and reel script, the value of the backend's object for the
\* contract field (caption, hashtags, soft_cta, disclaimer, reel_script) when
\* the object has it, and the draft's value of that field otherwise.
C5_FixedFieldsFromBackendOrDraft ==
    [][ReviewWrote =>
        \A i \in 1..Len(reviewed'.rows) :
            reviewed'.rows[i].status = "FIXED" =>
                \E call \in Range(Calls) :
                    LET want == FieldwiseRewrite(drafts.rows[i],
                                                 generate_json(call.key, call.reply))
                        row  == reviewed'.rows[i]
                    IN /\ row.final_caption = want.final_caption
                       /\ row.final_hashtags = want.final_hashtags
                       /\ row.final_cta = want.final_cta
                       /\ row.final_disclaimer = want.final_disclaimer
                       /\ row.reel_script = want.reel_script]_vars

\* C10: every row of drafts.jsonl and of reviewed.jsonl has at most 10 hashtags.
C10_HashtagsCapped ==
    /\ \A i \in 1..Len(drafts.rows) : Len(drafts.rows[i].hashtags) <= MaxHashtags
    /\ \A i \in 1..Len(reviewed.rows) : Len(reviewed.rows[i].final_hashtags) <= MaxHashtags

\* the chunk ids of a list of chunks, in order
ChunkIds(chunks) == [i \in 1..Len(chunks) |-> chunks[i].chunk_id]

\* what retrieval returns for a plan item over a corpus
RetrievedFor(item, kb_chunks) ==
    retrieve_relevant_chunks(item.pillar \o <<" ">> \o item.service \o <<" ">> \o item.angle,
                             kb_chunks, 5)

\* C11: for every plan item run_generate selects min(5, max(2, count)) chunks
\* when retrieval returns count >= 1 chunks, the first 2 corpus chunks when it
\* returns none, and retrieved_chunks lists the ids of the selected chunks in order.
C11_SelectedChunkCount ==
    [][GenerateWrote =>
        \A i \in 1..Len(drafts'.rows) :
            LET retrieved == RetrievedFor(plan.rows[i], kb.rows)
                count == Len(retrieved)
                floor == IF count > 2 THEN count ELSE 2
                want  == IF floor < 5 THEN floor ELSE 5
                ids   == drafts'.rows[i].retrieved_chunks
            IN IF count >= 1
               THEN /\ Len(ids) = want
                    /\ \A k \in 1..Len(ids) : k <= count /\ ids[k] = retrieved[k].chunk_id
               ELSE ids = ChunkIds(Take(kb.rows, 2))]_vars

----------------------------------------------------------------------------
(* Properties of retrieve_relevant_chunks (checked under SpecRetrieve) *)

\* the score of a chunk of the corpus against the query of the call
RScore(chunk) == score_chunk(Terms(rin.query), chunk.text)

\* where a chunk stands in the corpus (chunk ids are distinct)
RIndex(chunk) == CHOOSE k \in 1..Len(rin.chunks) : rin.chunks[k] = chunk

\* the corpus positions of the chunks with a positive score
RPositive == {k \in 1..Len(rin.chunks) : RScore(rin.chunks[k]) > 0}

\* a comes before b: higher score, or equal score and earlier in the corpus
RBefore(a, b) ==
    \/ RScore(a) > RScore(b)
    \/ RScore(a) = RScore(b) /\ RIndex(a) < RIndex(b)

\* C12: when some chunk has a positive score, the result has at most top_k
\* chunks, all of positive score, in non-increasing score order with equal
\* scores in corpus order; it is the top_k-prefix of that ordering of all
\* positive chunks; a second call returns the same sequence.
C12_RankedPrefix ==
    (rpc # "input" /\ rpc # "idle" /\ RPositive # {}) =>
        /\ Len(rout) <= rin.top_k
        /\ Len(rout) = IF Cardinality(RPositive) < rin.top_k
                       THEN Cardinality(RPositive) ELSE rin.top_k
        /\ \A i \in 1..Len(rout) : RIndex(rout[i]) \in RPositive
        /\ \A i, j \in 1..Len(rout) : i < j => RBefore(rout[i], rout[j])
        /\ \A k \in RPositive :
              (\A i \in 1..Len(rout) : rout[i] # rin.chunks[k]) =>
                  \A i \in 1..Len(rout) : RBefore(rout[i], rin.chunks[k])
        /\ rpc = "retrieved twice" => rout2 = rout

\* two calls were made on a corpus with more positive chunks than top_k; the
\* result holds two chunks of equal score and a chunk moved ahead of an
\* earlier one of lower score
C12_Witness ==
    /\ rpc = "retrieved twice"
    /\ Cardinality(RPositive) > rin.top_k
    /\ \E i, j \in 1..Len(rout) : i < j /\ RScore(rout[i]) = RScore(rout[j])
    /\ \E i, j \in 1..Len(rout) :
          i < j /\ RScore(rout[i]) > RScore(rout[j]) /\ RIndex(rout[i]) > RIndex(rout[j])

\* C13: when no chunk of the corpus has a nonzero score (empty query and empty
\* corpus included), the result is the first top_k chunks of the corpus in
\* corpus order, all of them when the corpus has fewer.
C13_FallbackToCorpusHead ==
    (rpc # "input" /\ rpc # "idle" /\ RPositive = {}) =>
        /\ Len(rout) = (IF Len(rin.chunks) < rin.top_k THEN Len(rin.chunks) ELSE rin.top_k)
        /\ \A i \in 1..Len(rout) : rout[i] = rin.chunks[i]

\* a call with a query that matches nothing, on a corpus longer than top_k
C13_Witness ==
    /\ rpc = "retrieved"
    /\ Len(rin.query) > 0
    /\ RPositive = {}
    /\ Len(rin.chunks) > rin.top_k
    /\ Len(rout) = rin.top_k

----------------------------------------------------------------------------
(* Properties of chunk_text (checked under SpecChunk) *)

\* the 0-based offset at which chunk i (1-based) starts
ChunkStart(i) == (i - 1) * (cin.chunk_size - cin.overlap)

\* C14: with overlap < chunk_size, chunk i is the text from offset i(C-O) to
\* i(C-O)+C, no chunk is empty, and every offset of the text lies in a chunk.
C14_ChunksCoverText ==
    (cpc = "called" /\ cin.overlap < cin.chunk_size) =>
        /\ ~cout.raised
        /\ \A i \in 1..Len(cout.chunks) :
              LET end == IF ChunkStart(i) + cin.chunk_size < Len(cin.text)
                         THEN ChunkStart(i) + cin.chunk_size ELSE Len(cin.text)
              IN /\ Len(cout.chunks[i]) > 0
                 /\ cout.chunks[i] = SubSeq(cin.text, ChunkStart(i) + 1, end)
        /\ \A p \in 0..(Len(cin.text) - 1) :
              \E i \in 1..Len(cout.chunks) :
                  ChunkStart(i) <= p /\ p < ChunkStart(i) + Len(cout.chunks[i])

\* a text cut with a positive overlap into three or more chunks, the last one short
C14_Witness ==
    /\ cpc = "called"
    /\ cin.overlap > 0
    /\ cin.overlap < cin.chunk_size
    /\ Len(cout.chunks) >= 3
    /\ Len(cout.chunks[Len(cout.chunks)]) < cin.chunk_size

\* C15: with overlap < chunk_size, only the final chunk may be shorter than
\* chunk_size, and every two consecutive chunks of which the later is not the
\* final one share exactly overlap characters: the last overlap characters of
\* the earlier are the first overlap characters of the later.
C15_ConsecutiveOverlap ==
    (cpc = "called" /\ cin.overlap < cin.chunk_size) =>
        /\ \A i \in 1..(Len(cout.chunks) - 1) : Len(cout.chunks[i]) = cin.chunk_size
        /\ \A i \in 1..(Len(cout.chunks) - 2) :
              LET a == cout.chunks[i]
                  b == cout.chunks[i + 1]
              IN /\ Len(a) >= cin.overlap
                 /\ Len(b) >= cin.overlap
                 /\ SubSeq(a, Len(a) - cin.overlap + 1, Len(a)) = SubSeq(b, 1, cin.overlap)

\* C16: a call with overlap >= chunk_size raises the ValueError and returns no
\* chunk list, for every text, the empty text included.
C16_BadOverlapRaises ==
    (cpc = "called" /\ cin.overlap >= cin.chunk_size) =>
        /\ cout.raised
        /\ cout.chunks = <<>>

----------------------------------------------------------------------------
(* Properties of stub mode (checked under Spec) *)

\* C17: every DraftItem run_generate writes when the backend flag is not set
\* has a non-empty caption, between 1 and 10 hashtags each starting with '#',
\* and a non-empty reel script; its content is the stub built from the plan
\* item, the client name, the default CTA, the default disclaimer and the
\* selected chunks.
C17_StubDraftsComplete ==
    [][(GenerateWrote /\ ~llm_enabled(apiKey)) =>
        \A i \in 1..Len(drafts'.rows) :
            LET row  == drafts'.rows[i]
                stub == _stub_draft(plan.rows[i], cfg.client.client_name, DefaultCta(cfg.client),
                                    cfg.client.disclaimers.default,
                                    SelectChunks(plan.rows[i], kb.rows))
            IN /\ Len(row.caption) > 0
               /\ Len(row.hashtags) >= 1
               /\ Len(row.hashtags) <= 10
               /\ \A h \in 1..Len(row.hashtags) :
                     Len(row.hashtags[h]) > 0 /\ row.hashtags[h][1] = "#"
               /\ Len(row.reel_script) > 0
               /\ row.caption = stub.caption
               /\ row.hashtags = stub.hashtags.list
               /\ row.cta = stub.soft_cta
               /\ row.disclaimer = stub.disclaimer
               /\ row.reel_script = stub.reel_script.list]_vars

\* drafts written in stub mode for a plan of two or more items: once over an
\* empty corpus, with no credential set
C17_Witness ==
    /\ ~llm_enabled(apiKey)
    /\ kb.exists /\ plan.exists /\ drafts.exists
    /\ Len(kb.rows) = 0
    /\ Len(plan.rows) >= 2
    /\ drafts.rows = GenerateAll(plan.rows, cfg.client, kb.rows, FALSE, NoCalls)

\* C18: in stub mode over an empty corpus run_generate writes one draft per
\* plan item in plan order, each with the default hashtags substituted when a
\* backend supplies none; run_review of such drafts under a rule set with no
\* banned phrase, no banned pattern and always_include_default_disclaimer
\* false gives every item PASS with final fields equal to the draft's.
C18_StubEndToEnd ==
    [][/\ (GenerateWrote /\ ~llm_enabled(apiKey) /\ Len(kb.rows) = 0) =>
             /\ Ids(drafts'.rows) = Ids(plan.rows)
             /\ \A i \in 1..Len(drafts'.rows) : drafts'.rows[i].hashtags = DefaultHashtags
       /\ (/\ ReviewWrote
           /\ ~llm_enabled(apiKey)
           /\ Len(cfg.guardrails.banned_phrases) = 0
           /\ Len(cfg.guardrails.banned_claim_patterns) = 0
           /\ ~cfg.guardrails.disclaimer_rules.always_include_default_disclaimer
           /\ kb.exists /\ Len(kb.rows) = 0 /\ plan.exists
           /\ drafts.rows = GenerateAll(plan.rows, cfg.client, kb.rows, FALSE, NoCalls)) =>
             /\ Ids(reviewed'.rows) = Ids(drafts.rows)
             /\ \A i \in 1..Len(reviewed'.rows) :
                   /\ reviewed'.rows[i].status = "PASS"
                   /\ reviewed'.rows[i].final_caption = drafts.rows[i].caption
                   /\ reviewed'.rows[i].final_hashtags = drafts.rows[i].hashtags
                   /\ reviewed'.rows[i].final_cta = drafts.rows[i].cta
                   /\ reviewed'.rows[i].final_disclaimer = drafts.rows[i].disclaimer
                   /\ reviewed'.rows[i].reel_script = drafts.rows[i].reel_script]_vars

----------------------------------------------------------------------------
(* Properties of the run as a whole (checked under Spec) *)

\* C19: the backend-availability value is one and the same for the readers of
\* a run: what run_generate read for the drafts on disk and what run_review
\* read for the reviewed items on disk agree, whatever commands were run and
\* however the credential changed in between.
C19_OneAvailabilityValue ==
    Cardinality(reads.generate \cup reads.review) <= 1

\* a file that exists and holds at least one item
HasItems(file) == file.exists /\ Len(file.rows) > 0

\* C20: plan, generate and review change no artifact when the artifact of
\* their predecessor stage (ingest -> plan -> generate -> review) is missing
\* or holds zero items: plan.json is written only over a chunk store with
\* chunks, drafts.jsonl only over a plan with items, reviewed.jsonl only over
\* drafts with items.
C20_FailFastOnMissingPredecessor ==
    [][/\ plan' # plan => HasItems(kb)
       /\ drafts' # drafts => HasItems(plan)
       /\ reviewed' # reviewed => HasItems(drafts)]_vars

\* C21: a step that changes one of kb_chunks.jsonl, plan.json, drafts.jsonl,
\* reviewed.jsonl changes no other of them, and no step changes client.yaml,
\* guardrails.yaml or the sources: every command writes only its own artifact.
C21_OnlyOwnArtifact ==
    [][/\ kb' # kb => UNCHANGED <<plan, drafts, reviewed>>
       /\ plan' # plan => UNCHANGED <<kb, drafts, reviewed>>
       /\ drafts' # drafts => UNCHANGED <<kb, plan, reviewed>>
       /\ reviewed' # reviewed => UNCHANGED <<kb, plan, drafts>>
       /\ UNCHANGED <<cfg, sources>>]_vars

\* all four artifacts exist and drafts.jsonl was written again after the
\* review: a PASS item no longer carries the caption of the draft on disk
C21_Witness ==
    /\ kb.exists /\ plan.exists /\ drafts.exists /\ reviewed.exists
    /\ \E i \in 1..Len(reviewed.rows) :
          /\ i <= Len(drafts.rows)
          /\ reviewed.rows[i].status = "PASS"
          /\ reviewed.rows[i].final_caption # drafts.rows[i].caption

\* the number of rows of a file that carry the id
IdCount(file, id) == Cardinality({i \in 1..Len(file.rows) : file.rows[i].id = id})

MalformedCalls == {Calls[i] : i \in {j \in 1..Len(Calls) : Calls[j].key /\ ~Calls[j].reply.object}}

\* C23: for an answer that is not a JSON object generate_json returns a dict
\* with the single key caption holding the raw text, and every step of
\* run_generate that writes drafts.jsonl writes one DraftItem per PlanItem, the
\* one built from such an answer carrying the raw text as caption, the five
\* default hashtags, the client's default CTA, the client's default disclaimer
\* and an empty reel script.
C23_MalformedReplyFilled ==
    [][/\ \A c \in MalformedCalls :
             /\ generate_json(c.key, c.reply).keys = {"caption"}
             /\ generate_json(c.key, c.reply).caption = c.reply.raw_text
       /\ GenerateWrote =>
             /\ drafts'.exists
             /\ Len(drafts'.rows) = Len(plan.rows)
             /\ \A i \in 1..Len(drafts'.rows) : \A c \in MalformedCalls :
                   drafts'.rows[i].caption = c.reply.raw_text =>
                      /\ drafts'.rows[i] = MakeDraft(plan.rows[i], cfg.client, kb.rows, TRUE, c)
                      /\ drafts'.rows[i].hashtags = DefaultHashtags
                      /\ drafts'.rows[i].cta = DefaultCta(cfg.client)
                      /\ drafts'.rows[i].disclaimer = cfg.client.disclaimers.default
                      /\ drafts'.rows[i].reel_script = <<>>]_vars

\* drafts.jsonl holds a draft built from an answer that was not a JSON object
C23_Witness ==
    /\ drafts.exists
    /\ reads.generate = {"live"}
    /\ \E i \in 1..Len(drafts.rows) : \E c \in MalformedCalls :
          /\ Len(c.reply.raw_text) > 0
          /\ drafts.rows[i].caption = c.reply.raw_text
          /\ drafts.rows[i].hashtags = DefaultHashtags

\* C24: in every reviewed.jsonl run_review writes, an item with status PASS or
\* FAIL carries the hashtags, CTA and reel script of its draft; a PASS item
\* carries the draft's caption, and the draft's disclaimer unless that is
\* empty, when it carries the client's default; a FAIL item carries the
\* draft's disclaimer when that contains the default disclaimer in any letter
\* case, and the default disclaimer otherwise.
C24_UnrepairedFieldsKept ==
    [][ReviewWrote =>
          \A i \in 1..Len(reviewed'.rows) :
             LET r == reviewed'.rows[i]
                 d == drafts.rows[i]
                 default == cfg.client.disclaimers.default
             IN /\ r.status \in {"PASS", "FAIL"} =>
                      /\ r.final_hashtags = d.hashtags
                      /\ r.final_cta = d.cta
                      /\ r.reel_script = d.reel_script
                /\ r.status = "PASS" =>
                      /\ r.final_caption = d.caption
                      /\ r.final_disclaimer =
                            IF Len(d.disclaimer) > 0 THEN d.disclaimer ELSE default
                /\ r.status = "FAIL" =>
                      r.final_disclaimer =
                         IF IsSubstring(Lower(default), Lower(d.disclaimer))
                         THEN d.disclaimer ELSE default]_vars

\* reviewed.jsonl holds the review of the drafts on disk, with a FAIL item
\* whose disclaimer was replaced by the default and a PASS item
C24_Witness ==
    /\ drafts.exists /\ reviewed.exists
    /\ Len(reviewed.rows) = Len(drafts.rows)
    /\ \E i \in 1..Len(reviewed.rows) :
          /\ reviewed.rows[i].status = "FAIL"
          /\ reviewed.rows[i].final_hashtags = drafts.rows[i].hashtags
          /\ reviewed.rows[i].final_disclaimer = cfg.client.disclaimers.default
          /\ reviewed.rows[i].final_disclaimer # drafts.rows[i].disclaimer
    /\ \E i \in 1..Len(reviewed.rows) :
          /\ reviewed.rows[i].status = "PASS"
          /\ reviewed.rows[i].final_caption = drafts.rows[i].caption

\* C25: in every reviewed.jsonl run_review writes, an item has no reasons iff
\* its status is PASS; the reasons of a FIXED item are the reasons
\* evaluate_draft gives for its draft, in that order; the reasons of a FAIL item
\* are those reasons, in that order, followed by the one note that a fix was
\* suggested, which is none of the evaluator's reasons.
C25_ReasonsKept ==
    [][ReviewWrote =>
          \A i \in 1..Len(reviewed'.rows) :
             LET r == reviewed'.rows[i]
                 result == evaluate_draft(drafts.rows[i], cfg.guardrails,
                                          cfg.client.disclaimers.default)
             IN /\ (Len(r.reasons) = 0) <=> (r.status = "PASS")
                /\ r.status = "FIXED" => r.reasons = result.reasons
                /\ r.status = "FAIL" =>
                      /\ r.reasons = result.reasons \o <<SuggestedReason>>
                      /\ \A k \in 1..Len(result.reasons) :
                            result.reasons[k] # SuggestedReason]_vars

\* reviewed.jsonl holds a FIXED item with several reasons next to a PASS item
C25_Witness ==
    /\ reviewed.exists
    /\ \E i \in 1..Len(reviewed.rows) :
          /\ reviewed.rows[i].status = "FIXED"
          /\ Len(reviewed.rows[i].reasons) >= 2
    /\ \E i \in 1..Len(reviewed.rows) :
          /\ reviewed.rows[i].status = "PASS"
          /\ Len(reviewed.rows[i].reasons) = 0

\* the configured keywords the draft's caption, CTA or hashtags contain, in any
\* letter case
KeywordsIn(draft, guardrails) ==
    {k \in Range(guardrails.disclaimer_rules.must_include_disclaimer_if_keywords) :
        IsSubstring(Lower(k), Lower(DraftText(draft)))}

\* the draft a ReviewedItem's final fields make
FinalDraft(r) ==
    [caption |-> r.final_caption, cta |-> r.final_cta, hashtags |-> r.final_hashtags,
     disclaimer |-> r.final_disclaimer]

\* no banned phrase and no banned claim pattern is reported for the draft
NoBannedContent(draft, guardrails) ==
    /\ BannedPhraseReasons(draft, guardrails) = <<>>
    /\ BannedPatternReasons(draft, guardrails) = <<>>

\* the keyword is kept by the review: still in the final caption when it was in
\* the caption, and still reported when the final fields are evaluated
KeywordKept(k, d, r) ==
    /\ IsSubstring(Lower(k), Lower(d.caption)) => IsSubstring(Lower(k), Lower(r.final_caption))
    /\ KeywordReason(k) \in Range(evaluate_draft(FinalDraft(r), cfg.guardrails,
                                                 cfg.client.disclaimers.default).reasons)

====
